---------------------------- MODULE Spec2Model ----------------------------
(***************************************************************************)
(* LZ77 compressor of sloppy-compressor (src/src/lz77/): the tokenizer     *)
(* (compress.rs), the bit codec (serialisation.rs), the window containers  *)
(* (window_byte_container.rs) and the replayer (compress.rs).              *)
(*                                                                         *)
(* Bytes are integers 0..255, bits are integers 0..1, a Vec / slice is a   *)
(* sequence.  Rust indices are 0-based and are kept 0-based in the         *)
(* arithmetic; At and Slice convert at the point of access.  A Rust panic  *)
(* (index out of range, slice out of range, unwrap on Err, explicit        *)
(* panic!) is an explicit outcome: operators that can panic return a       *)
(* record with an ok field, actions move pc to "panic".                    *)
(***************************************************************************)
EXTENDS Integers, Sequences, FiniteSets, TLC

VARIABLES
    pc,               \* position in the pipeline: build, serialise, end_marker,
                      \* deserialise_start, deserialise, replay, done, panic
    to_compress,      \* build_lz77_node_list: the input slice
    byte_ptr,         \* build_lz77_node_list: the cursor
    search_window,    \* ByteWindow.current_index of the search window
    prefix_window,    \* ByteWindow.current_index of the prefix window
    nodes,            \* the nodes handed to the callback, in order
    cursors,          \* the value of byte_ptr when each node was computed
    encoded,          \* the BitVec built by serailise_nodes / append_end_marker
    file_bytes,       \* the Vec<u8> the BitVec is converted into
    bit_view,         \* deserialise_nodes: the bits of the bytes it is given
    bitstream_offset, \* deserialise_nodes: the read position in the bit view
    decoded,          \* deserialise_nodes: the nodes decoded so far
    node_index,       \* decompress_nodes: number of nodes replayed
    search_buffer,    \* decompress_nodes: ByteBuffer.vec
    written,          \* decompress_nodes: the bytes written to the sink
    length_in,        \* length codec: the length handed to serialise_length
    length_out,       \* length codec: the result of deserialise_length
    byte_buffer,      \* a ByteBuffer on its own: [vec, limit]
    pushes,           \* every element handed to byte_buffer's push_all, in order
    byte_window,      \* a ByteWindow: [bytes, max_window_size, current_index]
    byte_locations,   \* IndexableByteWindow.byte_locations: byte -> positions
    door,             \* the ByteWindowAdvance the last advance returned
    window_index      \* the last call of location_to_window_index and its result

vars == <<pc, to_compress, byte_ptr, search_window, prefix_window, nodes, cursors,
          encoded, file_bytes, bit_view, bitstream_offset, decoded, node_index,
          search_buffer, written, length_in, length_out,
          byte_buffer, pushes, byte_window, byte_locations, door, window_index>>

\* the state of the pipeline (mod.rs, compress.rs, serialisation.rs)
pipeline_vars == <<to_compress, byte_ptr, search_window, prefix_window, nodes, cursors,
                   encoded, file_bytes, bit_view, bitstream_offset, decoded, node_index,
                   search_buffer, written, length_in, length_out>>

\* the state of the containers exercised on their own (window_byte_container.rs)
container_vars == <<byte_buffer, pushes, byte_window, byte_locations, door, window_index>>

----------------------------------------------------------------------------
(* Program constants *)

SEARCH_WINDOW_SIZE_2048 == 2048

SEARCH_WINDOW_SIZE == 2047

PREFIX_WINDOW_SIZE == 2048

U16_MAX == 65535

U8_MAX == 255

----------------------------------------------------------------------------
(* Bounds of the model *)

\* longest input drawn from Alphabet
MaxLen == 6

\* period of the filler of the long inputs
FillerPeriod == 251

\* longest arbitrary bit vector handed to append_end_marker
MaxBits == 9

\* longest token list handed to the codec on its own
MaxTokens == 3

\* longest input drawn from Alphabet when termination is checked
MaxLiveLen == 4

\* longest input of pairwise distinct bytes
MaxDistinct == 16

\* largest length handed to the length codec on its own
MaxLength == 2047

Alphabet == {97, 98, 99}

----------------------------------------------------------------------------
(* Slices and small helpers *)

Min(a, b) == IF a < b THEN a ELSE b

\* usize::saturating_sub
SaturatingSub(a, b) == IF a > b THEN a - b ELSE 0

\* s[i], 0-based
At(s, i) == s[i + 1]

\* &s[a..b] is in range
SliceOk(s, a, b) == 0 <= a /\ a <= b /\ b <= Len(s)

\* &s[a..b], 0-based, b exclusive
Slice(s, a, b) == SubSeq(s, a + 1, b)

NoNode == [type |-> "None"]

ByteLiteral(lit) == [type |-> "ByteLiteral", lit |-> lit]

Reference(offset, length) == [type |-> "Reference", offset |-> offset, length |-> length]

EndOfStream == [type |-> "EndOfStream"]

----------------------------------------------------------------------------
(* window_byte_container.rs: ByteWindow *)

\* advance_to_pointer keeping one byte more than max_window_size
advance_to_pointer_wide(bytes, max_window_size, current_index, pointer) ==
    LET new_start_index == SaturatingSub(pointer, max_window_size + 1)
        old_start_index == SaturatingSub(current_index, max_window_size + 1)
        end_index == Min(Len(bytes), pointer)
        window_some == new_start_index < end_index
        admitted_some == current_index < Len(bytes)
        evicted_some == old_start_index < new_start_index /\ old_start_index < Len(bytes)
    IN  [ok |-> /\ (admitted_some => SliceOk(bytes, current_index, end_index))
                /\ (evicted_some => SliceOk(bytes, old_start_index, new_start_index)),
         window |-> IF window_some THEN Slice(bytes, new_start_index, end_index) ELSE <<>>,
         admitted |-> IF admitted_some /\ SliceOk(bytes, current_index, end_index)
                      THEN Slice(bytes, current_index, end_index) ELSE <<>>,
         evicted |-> IF evicted_some /\ SliceOk(bytes, old_start_index, new_start_index)
                     THEN Slice(bytes, old_start_index, new_start_index) ELSE <<>>]

\* advance_to_pointer admitting every byte left, not only those up to pointer
advance_to_pointer_admits_rest(bytes, max_window_size, current_index, pointer) ==
    LET new_start_index == SaturatingSub(pointer, max_window_size)
        old_start_index == SaturatingSub(current_index, max_window_size)
        end_index == Min(Len(bytes), pointer)
        window_some == new_start_index < end_index
        admitted_some == current_index < Len(bytes)
        evicted_some == old_start_index < new_start_index /\ old_start_index < Len(bytes)
    IN  [ok |-> evicted_some => SliceOk(bytes, old_start_index, new_start_index),
         window |-> IF window_some THEN Slice(bytes, new_start_index, end_index) ELSE <<>>,
         admitted |-> IF admitted_some
                      THEN Slice(bytes, current_index, Len(bytes)) ELSE <<>>,
         evicted |-> IF evicted_some /\ SliceOk(bytes, old_start_index, new_start_index)
                     THEN Slice(bytes, old_start_index, new_start_index) ELSE <<>>]

\* ByteWindow::advance_to_pointer on a window with the given current_index;
\* the new current_index is pointer.  ok is FALSE when a slice the function
\* takes is out of range (a panic); the slice is then given as empty.
advance_to_pointer(bytes, max_window_size, current_index, pointer) ==
    LET new_start_index == SaturatingSub(pointer, max_window_size)
        old_start_index == SaturatingSub(current_index, max_window_size)
        end_index == Min(Len(bytes), pointer)
        window_some == new_start_index < end_index
        admitted_some == current_index < Len(bytes)
        evicted_some == old_start_index < new_start_index /\ old_start_index < Len(bytes)
    IN  [ok |-> /\ (admitted_some => SliceOk(bytes, current_index, end_index))
                /\ (evicted_some => SliceOk(bytes, old_start_index, new_start_index)),
         window |-> IF window_some THEN Slice(bytes, new_start_index, end_index) ELSE <<>>,
         admitted |-> IF admitted_some /\ SliceOk(bytes, current_index, end_index)
                      THEN Slice(bytes, current_index, end_index) ELSE <<>>,
         evicted |-> IF evicted_some /\ SliceOk(bytes, old_start_index, new_start_index)
                     THEN Slice(bytes, old_start_index, new_start_index) ELSE <<>>]

\* ByteWindow::window
window(bytes, max_window_size, current_index) ==
    LET start_index == SaturatingSub(current_index, max_window_size)
        end_index == Min(Len(bytes), current_index)
    IN  IF start_index < Len(bytes) THEN Slice(bytes, start_index, end_index) ELSE <<>>

----------------------------------------------------------------------------
(* window_byte_container.rs: IndexableByteWindow *)

\* byte_locations.entry(u).or_default().push_back(pos)
PushBack(locations, u, pos) ==
    [v \in DOMAIN locations \cup {u} |->
        IF v = u
        THEN (IF u \in DOMAIN locations THEN locations[u] ELSE <<>>) \o <<pos>>
        ELSE locations[v]]

\* byte_locations.entry(u).and_modify(|v| { v.pop_front(); })
PopFront(locations, u) ==
    IF u \in DOMAIN locations
    THEN [locations EXCEPT ![u] = IF @ = <<>> THEN @ ELSE Tail(@)]
    ELSE locations

\* the first loop of update_byte_location_table, from element i (0-based)
RECURSIVE AdmitAll(_, _, _, _)
AdmitAll(locations, admitted, admission_offset, i) ==
    IF i >= Len(admitted) THEN locations
    ELSE AdmitAll(PushBack(locations, At(admitted, i), i + admission_offset),
                  admitted, admission_offset, i + 1)

\* the second loop of update_byte_location_table, from element i (0-based)
RECURSIVE EvictAll(_, _, _)
EvictAll(locations, evicted, i) ==
    IF i >= Len(evicted) THEN locations
    ELSE EvictAll(PopFront(locations, At(evicted, i)), evicted, i + 1)

\* update_byte_location_table running its two loops in the other order
update_byte_location_table_evict_first(locations, admitted, admission_offset, evicted) ==
    AdmitAll(EvictAll(locations, evicted, 0), admitted, admission_offset, 0)

update_byte_location_table(locations, admitted, admission_offset, evicted) ==
    EvictAll(AdmitAll(locations, admitted, admission_offset, 0), evicted, 0)

\* location_to_window_index panicking at location == current_index too
location_to_window_index_strict(max_window_size, current_index, location) ==
    LET offset == SaturatingSub(current_index, max_window_size)
    IN  IF location >= current_index \/ location < offset
        THEN [ok |-> FALSE, index |-> 0]
        ELSE [ok |-> TRUE, index |-> location - offset]

\* IndexableByteWindow::location_to_window_index: [ok, index]
location_to_window_index(max_window_size, current_index, location) ==
    LET offset == SaturatingSub(current_index, max_window_size)
    IN  IF location > current_index \/ location < offset
        THEN [ok |-> FALSE, index |-> 0]
        ELSE [ok |-> TRUE, index |-> location - offset]

----------------------------------------------------------------------------
(* compress.rs: the tokenizer *)

\* the largest m in lo..hi such that left and right agree on their first m
\* elements, given that they agree on their first lo (bisection: agreeing on
\* the first m elements implies agreeing on fewer)
RECURSIVE common_prefix(_, _, _, _)
common_prefix(left, right, lo, hi) ==
    IF lo >= hi THEN lo
    ELSE LET mid == (lo + hi + 1) \div 2
         IN  IF SubSeq(left, lo + 1, mid) = SubSeq(right, lo + 1, mid)
             THEN common_prefix(left, right, mid, hi)
             ELSE common_prefix(left, right, lo, mid - 1)

\* find_length_of_series_match counting the first differing element too
find_length_of_series_match_off(left, right) ==
    Min(common_prefix(left, right, 0, Min(Len(left), Len(right))) + 1,
        Min(Len(left), Len(right)))

\* find_length_of_series_match: the first index at which left and right
\* differ, or min(left.len(), right.len()) when they do not
find_length_of_series_match(left, right) ==
    common_prefix(left, right, 0, Min(Len(left), Len(right)))

\* the comparison letting a candidate as long as the best match replace it
IsBetterMatchTie(series_match, length) == series_match > 0 /\ series_match + 1 >= length

\* the comparison that lets a candidate replace the best match so far
\* (compress.rs:71)
IsBetterMatchGE(series_match, length) == series_match >= length

IsBetterMatch(series_match, length) == series_match > length

\* ScanVisit counting the first byte twice in the length
ScanVisitLong(first_uncompressed_byte, compressed_bytes, bytes_to_compressed, i, best) ==
    IF first_uncompressed_byte = At(compressed_bytes, i)
    THEN LET series_match ==
                 find_length_of_series_match(
                     Slice(compressed_bytes, i + 1, Len(compressed_bytes)),
                     bytes_to_compressed)
         IN  IF IsBetterMatch(series_match, best.length)
             THEN [offset |-> Len(compressed_bytes) - i, length |-> series_match + 2]
             ELSE best
    ELSE best

\* ScanVisit letting a match run on from the search window into the bytes
\* that are being matched
ScanVisitOverlapping(first_uncompressed_byte, compressed_bytes, bytes_to_compressed, i, best) ==
    IF first_uncompressed_byte = At(compressed_bytes, i)
    THEN LET series_match ==
                 find_length_of_series_match(
                     Slice(compressed_bytes, i + 1, Len(compressed_bytes))
                         \o <<first_uncompressed_byte>> \o bytes_to_compressed,
                     bytes_to_compressed)
         IN  IF IsBetterMatch(series_match, best.length)
             THEN [offset |-> Len(compressed_bytes) - i, length |-> series_match + 1]
             ELSE best
    ELSE best

\* one iteration of the scan loop of calculate_reference_node at index i
ScanVisit(first_uncompressed_byte, compressed_bytes, bytes_to_compressed, i, best) ==
    IF first_uncompressed_byte = At(compressed_bytes, i)
    THEN LET series_match ==
                 find_length_of_series_match(
                     Slice(compressed_bytes, i + 1, Len(compressed_bytes)),
                     bytes_to_compressed)
         IN  IF IsBetterMatch(series_match, best.length)
             THEN [offset |-> Len(compressed_bytes) - i, length |-> series_match + 1]
             ELSE best
    ELSE best

\* the scan loop run from the head of the window to its tail: i = lo, .., hi
RECURSIVE ScanRangeForward(_, _, _, _, _, _)
ScanRangeForward(first_uncompressed_byte, compressed_bytes, bytes_to_compressed, lo, hi, best) ==
    IF lo > hi THEN best
    ELSE IF lo = hi
    THEN ScanVisit(first_uncompressed_byte, compressed_bytes, bytes_to_compressed, lo, best)
    ELSE LET mid == (lo + hi) \div 2
             lower == ScanRangeForward(first_uncompressed_byte, compressed_bytes,
                                       bytes_to_compressed, lo, mid, best)
         IN  IF lower.length >= 0
             THEN ScanRangeForward(first_uncompressed_byte, compressed_bytes,
                                   bytes_to_compressed, mid + 1, hi, lower)
             ELSE lower

\* the scan loop over i = hi, hi - 1, .., lo (the upper half of the range is
\* scanned first, then the lower half from the result: the loop's order)
RECURSIVE ScanRange(_, _, _, _, _, _)
ScanRange(first_uncompressed_byte, compressed_bytes, bytes_to_compressed, lo, hi, best) ==
    IF lo > hi THEN best
    ELSE IF lo = hi
    THEN ScanVisit(first_uncompressed_byte, compressed_bytes, bytes_to_compressed, lo, best)
    ELSE LET mid == (lo + hi) \div 2
             upper == ScanRange(first_uncompressed_byte, compressed_bytes,
                                bytes_to_compressed, mid + 1, hi, best)
         IN  \* the test is always true: it has upper computed before the
             \* lower half is entered
             IF upper.length >= 0
             THEN ScanRange(first_uncompressed_byte, compressed_bytes,
                            bytes_to_compressed, lo, mid, upper)
             ELSE upper

\* calculate_reference_node with a scan that stops before index 0
calculate_reference_node_skips_head(first_uncompressed_byte, compressed_bytes, bytes_to_compressed) ==
    LET best == ScanRange(first_uncompressed_byte, compressed_bytes, bytes_to_compressed,
                          1, Len(compressed_bytes) - 1, [offset |-> 0, length |-> 0])
    IN  IF best.length = 0
        THEN [ok |-> TRUE, node |-> NoNode]
        ELSE [ok |-> best.offset <= U16_MAX /\ best.length <= U16_MAX,
              node |-> Reference(best.offset, best.length)]

\* calculate_reference_node: [ok, node]; node is NoNode for Option::None
calculate_reference_node(first_uncompressed_byte, compressed_bytes, bytes_to_compressed) ==
    LET best == ScanRange(first_uncompressed_byte, compressed_bytes, bytes_to_compressed,
                          0, Len(compressed_bytes) - 1, [offset |-> 0, length |-> 0])
    IN  IF best.length = 0
        THEN [ok |-> TRUE, node |-> NoNode]
        ELSE [ok |-> best.offset <= U16_MAX /\ best.length <= U16_MAX,
              node |-> Reference(best.offset, best.length)]

----------------------------------------------------------------------------
(* serialisation.rs: the bit codec *)

\* 2^n
Pow2(n) == 2 ^ n

\* the low `width` bits of v, least significant first
LowBitsLsbFirst(v, width) == [i \in 1..width |-> (v \div Pow2(i - 1)) % 2]

\* the low `width` bits of v, most significant first: x.view_bits::<Msb0>()
\* restricted to its last `width` bits
LowBits(v, width) == [i \in 1..width |-> (v \div Pow2(width - i)) % 2]

\* slice_to_byte / slice_to_offset: the value of a bit slice, MSB first
RECURSIVE slice_to_offset(_)
slice_to_offset(slice) ==
    IF Len(slice) = 0 THEN 0
    ELSE 2 * slice_to_offset(SubSeq(slice, 1, Len(slice) - 1)) + slice[Len(slice)]

slice_to_byte(slice) == slice_to_offset(slice) % (U8_MAX + 1)

\* the number of blocks rounded up instead of biased by 7
padding_one_blocks_ceil(length) == (length + 14) \div 15

\* number of 1,1,1,1 blocks written for a length >= 8 (serialisation.rs:59)
padding_one_blocks_8(length) == (length + 8) \div 15

padding_one_blocks(length) == (length + 7) \div 15

\* serialise_length: [ok, bits]; length 1 panics, and so does length 0
\* (0 * 15 - 7 underflows u16)
serialise_length(length) ==
    IF length = 1 THEN [ok |-> FALSE, bits |-> <<>>]
    ELSE IF length = 2 THEN [ok |-> TRUE, bits |-> <<0, 0>>]
    ELSE IF length = 3 THEN [ok |-> TRUE, bits |-> <<0, 1>>]
    ELSE IF length = 4 THEN [ok |-> TRUE, bits |-> <<1, 0>>]
    ELSE IF length = 5 THEN [ok |-> TRUE, bits |-> <<1, 1, 0, 0>>]
    ELSE IF length = 6 THEN [ok |-> TRUE, bits |-> <<1, 1, 0, 1>>]
    ELSE IF length = 7 THEN [ok |-> TRUE, bits |-> <<1, 1, 1, 0>>]
    ELSE LET k == padding_one_blocks(length)
             adjusted == length - (k * 15 - 7)
         IN  IF k * 15 < 7 \/ k * 15 - 7 > length \/ adjusted > U8_MAX
             THEN [ok |-> FALSE, bits |-> <<>>]
             ELSE [ok |-> TRUE,
                   bits |-> [i \in 1..(4 * k) |-> 1] \o LowBits(adjusted, 4)]

\* the bits serailise_nodes writes for one node: [ok, bits]
offset_is_short_le(offset) == offset <= 128

offset_is_short(offset) == offset < 128

serialise_node(node) ==
    IF node.type = "ByteLiteral"
    THEN [ok |-> TRUE, bits |-> <<0>> \o LowBits(node.lit, 8)]
    ELSE IF node.type = "Reference"
    THEN LET length_encoded == serialise_length(node.length)
         IN  [ok |-> length_encoded.ok,
              bits |-> <<1>>
                       \o (IF offset_is_short(node.offset)
                           THEN <<1>> \o LowBits(node.offset, 7)
                           ELSE <<0>> \o LowBits(node.offset, 11))
                       \o length_encoded.bits]
    ELSE [ok |-> TRUE, bits |-> <<>>]

\* serailise_nodes over ns[lo..hi] (1-based, inclusive): the concatenation
\* of the nodes' bits in order
RECURSIVE serialise_range(_, _, _)
serialise_range(ns, lo, hi) ==
    IF lo > hi THEN <<>>
    ELSE IF lo = hi THEN serialise_node(ns[lo]).bits
    ELSE LET mid == (lo + hi) \div 2
         IN  serialise_range(ns, lo, mid) \o serialise_range(ns, mid + 1, hi)

\* serailise_nodes: [ok, bits]
serailise_nodes(ns) ==
    [ok |-> \A i \in 1..Len(ns) : serialise_node(ns[i]).ok,
     bits |-> serialise_range(ns, 1, Len(ns))]

\* a marker one bit short
end_of_stream_marker_8 == <<1, 1, 0, 0, 0, 0, 0, 0>>

end_of_stream_marker == <<1, 1, 0, 0, 0, 0, 0, 0, 0>>

\* number of 0 bits append_end_marker pushes after the marker
trailing_padding_always(len) == 8 - (len % 8)

trailing_padding(len) == IF len % 8 > 0 THEN 8 - (len % 8) ELSE 0

\* append_end_marker
append_end_marker(encoding) ==
    LET marked == encoding \o end_of_stream_marker
    IN  marked \o [i \in 1..trailing_padding(Len(marked)) |-> 0]

\* BitVec<Msb0, u8> -> Vec<u8>: whole bytes, MSB first; the unused bits of a
\* last partial byte are 0
bitvec_into_bytes(bits) ==
    [j \in 1..((Len(bits) + 7) \div 8) |->
        slice_to_offset([i \in 1..8 |->
            IF 8 * (j - 1) + i <= Len(bits) THEN bits[8 * (j - 1) + i] ELSE 0])]

\* file_bytes.view_bits::<Msb0>()
view_bits(bytes) ==
    [i \in 1..(8 * Len(bytes)) |-> (bytes[((i - 1) \div 8) + 1] \div Pow2(7 - ((i - 1) % 8))) % 2]

\* bias of the block-counting formula of deserialise_length (serialisation.rs:166)
length_bias_8 == 7 + 1

length_bias == 7

\* deserialise_length: [ok, length, bits_read]
deserialise_length(slice) ==
    LET panic == [ok |-> FALSE, length |-> 0, bits_read |-> 0]
    IN  IF ~SliceOk(slice, 0, 2) THEN panic
        ELSE IF Slice(slice, 0, 2) # <<1, 1>>
        THEN IF Slice(slice, 0, 2) = <<0, 0>> THEN [ok |-> TRUE, length |-> 2, bits_read |-> 2]
             ELSE IF Slice(slice, 0, 2) = <<0, 1>>
             THEN [ok |-> TRUE, length |-> 3, bits_read |-> 2]
             ELSE [ok |-> TRUE, length |-> 4, bits_read |-> 2]
        ELSE IF ~SliceOk(slice, 0, 4) THEN panic
        ELSE IF Slice(slice, 0, 4) # <<1, 1, 1, 1>>
        THEN IF Slice(slice, 0, 4) = <<1, 1, 0, 0>>
             THEN [ok |-> TRUE, length |-> 5, bits_read |-> 4]
             ELSE IF Slice(slice, 0, 4) = <<1, 1, 0, 1>>
             THEN [ok |-> TRUE, length |-> 6, bits_read |-> 4]
             ELSE [ok |-> TRUE, length |-> 7, bits_read |-> 4]
        ELSE \* the loop: the first block that is not 1,1,1,1 ends the code, and
             \* it is the block that holds the first 0 bit; running off the
             \* slice before one is found panics
             LET leading_ones == common_prefix(slice, [i \in 1..Len(slice) |-> 1],
                                               0, Len(slice))
                 four_bit_block_count == leading_ones \div 4
                 block_index == four_bit_block_count * 4
             IN  IF ~SliceOk(slice, block_index, block_index + 4) THEN panic
                 ELSE LET trailing_bit_value ==
                              slice_to_offset(Slice(slice, block_index, block_index + 4))
                          length == (four_bit_block_count * 15 - length_bias)
                                    + trailing_bit_value
                          next_read_offset == block_index + 4
                      IN  IF length > U16_MAX \/ next_read_offset > U16_MAX THEN panic
                          ELSE [ok |-> TRUE, length |-> length,
                                bits_read |-> next_read_offset]

----------------------------------------------------------------------------
(* window_byte_container.rs: ByteBuffer *)

\* push_all evicting one element more than needed
push_all_drops_extra(vec, limit, elements) ==
    IF Len(vec) + Len(elements) > limit
    THEN LET count_to_drop == (Len(vec) + Len(elements)) - limit + 1
         IN  IF count_to_drop > Len(vec)
             THEN [ok |-> FALSE, vec |-> vec]
             ELSE [ok |-> TRUE, vec |-> Slice(vec, count_to_drop, Len(vec)) \o elements]
    ELSE [ok |-> TRUE, vec |-> vec \o elements]

\* ByteBuffer::push_all: [ok, vec]; drain(0..count_to_drop) panics when
\* count_to_drop exceeds the length of the vector
push_all(vec, limit, elements) ==
    IF Len(vec) + Len(elements) > limit
    THEN LET count_to_drop == (Len(vec) + Len(elements)) - limit
         IN  IF count_to_drop > Len(vec)
             THEN [ok |-> FALSE, vec |-> vec]
             ELSE [ok |-> TRUE, vec |-> Slice(vec, count_to_drop, Len(vec)) \o elements]
    ELSE [ok |-> TRUE, vec |-> vec \o elements]

----------------------------------------------------------------------------
(* Inputs *)

\* every byte sequence over Alphabet of length 0..MaxLen
ShortInputs == UNION {[1..n -> Alphabet] : n \in 0..MaxLen}

\* "ababcbababaa" (mod.rs:68, compress.rs:143)
Scenario1 == <<97, 98, 97, 98, 99, 98, 97, 98, 97, 98, 97, 97>>

\* "ababb" (compress.rs:192)
Ababb == <<97, 98, 97, 98, 98>>

\* the single byte 0x5A
SingleByte == <<90>>

\* 256 pairwise distinct bytes
AllBytes == [i \in 1..(U8_MAX + 1) |-> i - 1]

\* inputs of 1..MaxDistinct pairwise distinct bytes
DistinctInputs == {[i \in 1..n |-> (U8_MAX + 1) - i] : n \in 1..MaxDistinct}

\* a lead, the pair 1,2, a periodic filler of bytes >= 3, the pair 1,2
\* again `gap` bytes after the first, and a tail
LongInput(lead, gap, tail) ==
    lead \o <<1, 2>> \o [j \in 1..(gap - 2) |-> 3 + ((j - 1) % FillerPeriod)]
         \o <<1, 2>> \o tail

\* gaps on both sides of the short offset form (128) and of the search window
LongGaps == {127, 128, 2047, 2048}

LongLeads == {<<>>, <<0>>}

LongTails == {<<>>, <<3>>}

LongInputs ==
    {LongInput(lead, gap, tail) : lead \in LongLeads, gap \in LongGaps, tail \in LongTails}

Inputs ==
    ShortInputs \cup {Scenario1, SingleByte, AllBytes} \cup DistinctInputs \cup LongInputs

----------------------------------------------------------------------------
(* The pipeline: compress_bytes then decompress_bytes (mod.rs) *)

\* the containers as constructed and not used: ByteBuffer::new(limit),
\* with_max_window_size(bytes, max), no advance and no lookup yet
NoDoor == [evicted |-> <<>>, admitted |-> <<>>, window |-> <<>>]

NoWindowIndex == [called |-> FALSE]

\* HashMap::with_capacity_and_hasher: no key
NoLocations == [v \in {} |-> <<>>]

ContainersIdle ==
    /\ byte_buffer = [vec |-> <<>>, limit |-> SEARCH_WINDOW_SIZE]
    /\ pushes = <<>>
    /\ byte_window = [bytes |-> <<>>, max_window_size |-> SEARCH_WINDOW_SIZE,
                      current_index |-> 0]
    /\ byte_locations = NoLocations
    /\ door = NoDoor
    /\ window_index = NoWindowIndex

Init ==
    /\ pc = "build"
    /\ to_compress \in Inputs
    /\ byte_ptr = 0
    /\ search_window = 0
    /\ prefix_window = 0
    /\ nodes = <<>>
    /\ cursors = <<>>
    /\ encoded = <<>>
    /\ file_bytes = <<>>
    /\ bit_view = <<>>
    /\ bitstream_offset = 0
    /\ decoded = <<>>
    /\ node_index = 0
    /\ search_buffer = <<>>
    /\ written = <<>>
    /\ length_in = 0
    /\ length_out = [ok |-> FALSE, length |-> 0, bits_read |-> 0]
    /\ ContainersIdle

\* one iteration of the loop of build_lz77_node_list
BuildStep ==
    /\ pc = "build"
    /\ IF byte_ptr >= Len(to_compress)
       THEN \* to_compress[byte_ptr] is out of range
            /\ pc' = "panic"
            /\ UNCHANGED <<byte_ptr, search_window, prefix_window, nodes, cursors>>
       ELSE LET c == At(to_compress, byte_ptr)
                search == advance_to_pointer(to_compress, SEARCH_WINDOW_SIZE,
                                             search_window, byte_ptr)
                prefix == advance_to_pointer(to_compress, PREFIX_WINDOW_SIZE,
                                             prefix_window,
                                             byte_ptr + PREFIX_WINDOW_SIZE + 1)
                found == calculate_reference_node(c, search.window, prefix.window)
                node == IF found.node = NoNode THEN ByteLiteral(c) ELSE found.node
                next_ptr == IF found.node = NoNode THEN byte_ptr + 1
                            ELSE byte_ptr + found.node.length
            IN  IF ~(search.ok /\ prefix.ok /\ found.ok)
                THEN /\ pc' = "panic"
                     /\ UNCHANGED <<byte_ptr, search_window, prefix_window, nodes, cursors>>
                ELSE /\ search_window' = byte_ptr
                     /\ prefix_window' = byte_ptr + PREFIX_WINDOW_SIZE + 1
                     /\ nodes' = Append(nodes, node)
                     /\ cursors' = Append(cursors, byte_ptr)
                     /\ byte_ptr' = next_ptr
                     /\ pc' = IF next_ptr > Len(to_compress) - 1 THEN "serialise" ELSE "build"
    /\ UNCHANGED <<to_compress, encoded, file_bytes, bit_view, bitstream_offset, decoded,
                   node_index, search_buffer, written, length_in, length_out>>
    /\ UNCHANGED container_vars

\* compress_bytes: serailise_nodes(&nodes)
Serialise ==
    /\ pc = "serialise"
    /\ LET r == serailise_nodes(nodes)
       IN  IF r.ok
           THEN encoded' = r.bits /\ pc' = "end_marker"
           ELSE encoded' = encoded /\ pc' = "panic"
    /\ UNCHANGED <<to_compress, byte_ptr, search_window, prefix_window, nodes, cursors,
                   file_bytes, bit_view, bitstream_offset, decoded, node_index,
                   search_buffer, written, length_in, length_out>>
    /\ UNCHANGED container_vars

\* compress_bytes: append_end_marker(&mut encoded_nodes), then the
\* conversion of the bit vector into bytes
AppendEndMarker ==
    /\ pc = "end_marker"
    /\ encoded' = append_end_marker(encoded)
    /\ file_bytes' = bitvec_into_bytes(encoded')
    /\ pc' = "deserialise_start"
    /\ UNCHANGED <<to_compress, byte_ptr, search_window, prefix_window, nodes, cursors,
                   bit_view, bitstream_offset, decoded, node_index, search_buffer, written,
                   length_in, length_out>>
    /\ UNCHANGED container_vars

\* decompress_bytes: the entry of deserialise_nodes, which views the bytes
\* it is given as bits and starts reading at bit 0 with no nodes
DeserialiseStart ==
    /\ pc = "deserialise_start"
    /\ bit_view' = view_bits(file_bytes)
    /\ bitstream_offset' = 0
    /\ decoded' = <<>>
    /\ pc' = "deserialise"
    /\ UNCHANGED <<to_compress, byte_ptr, search_window, prefix_window, nodes, cursors,
                   encoded, file_bytes, node_index, search_buffer, written,
                   length_in, length_out>>
    /\ UNCHANGED container_vars

\* the node deserialise_nodes reads at bit offset `at` of bits:
\* [ok, node, next] with next the offset after the node
read_node(bits, at) ==
    LET panic == [ok |-> FALSE, node |-> NoNode, next |-> at]
    IN  IF At(bits, at) = 0
        THEN IF ~SliceOk(bits, at + 1, at + 9) THEN panic
             ELSE [ok |-> TRUE,
                   node |-> ByteLiteral(slice_to_byte(Slice(bits, at + 1, at + 9))),
                   next |-> at + 9]
        ELSE IF at + 1 >= Len(bits) THEN panic
        ELSE LET width == IF At(bits, at + 1) = 1 THEN 7 ELSE 11
                 start == at + 2
             IN  IF ~SliceOk(bits, start, start + width) THEN panic
                 ELSE LET offset == slice_to_offset(Slice(bits, start, start + width))
                          len == deserialise_length(
                                     Slice(bits, start + width, Len(bits)))
                      IN  IF ~len.ok THEN panic
                          ELSE [ok |-> TRUE,
                                node |-> Reference(offset, len.length),
                                next |-> start + width + len.bits_read]

\* one iteration of the loop of deserialise_nodes; the loop ends when the
\* read position reaches the end of the bits or the marker follows a node
DeserialiseStep ==
    /\ pc = "deserialise"
    /\ IF ~(bitstream_offset < Len(bit_view))
       THEN /\ pc' = "replay"
            /\ UNCHANGED <<bitstream_offset, decoded>>
       ELSE LET r == read_node(bit_view, bitstream_offset)
            IN  IF ~r.ok \/ ~SliceOk(bit_view, r.next, r.next + 9)
                THEN /\ pc' = "panic"
                     /\ UNCHANGED <<bitstream_offset, decoded>>
                ELSE /\ decoded' = Append(decoded, r.node)
                     /\ bitstream_offset' = r.next
                     /\ pc' = IF Slice(bit_view, r.next, r.next + 9) = end_of_stream_marker
                              THEN "replay" ELSE "deserialise"
    /\ UNCHANGED <<to_compress, byte_ptr, search_window, prefix_window, nodes, cursors,
                   encoded, file_bytes, bit_view, node_index, search_buffer, written,
                   length_in, length_out>>
    /\ UNCHANGED container_vars

\* the bytes decompress_nodes writes for one node: [ok, bytes]
bytes_to_write(node, buffer) ==
    IF node.type = "ByteLiteral" THEN [ok |-> TRUE, bytes |-> <<node.lit>>]
    ELSE IF node.type = "Reference"
    THEN LET search_start_index == Len(buffer) - node.offset
             search_stop_index == search_start_index + node.length
         IN  IF SliceOk(buffer, search_start_index, search_stop_index)
             THEN [ok |-> TRUE,
                   bytes |-> Slice(buffer, search_start_index, search_stop_index)]
             ELSE [ok |-> FALSE, bytes |-> <<>>]
    ELSE [ok |-> TRUE, bytes |-> <<>>]

\* one iteration of the loop of decompress_nodes; the function returns
\* when every node has been replayed
ReplayStep ==
    /\ pc = "replay"
    /\ IF node_index = Len(decoded)
       THEN /\ pc' = "done"
            /\ UNCHANGED <<node_index, search_buffer, written>>
       ELSE LET w == bytes_to_write(decoded[node_index + 1], search_buffer)
                pushed == push_all(search_buffer, SEARCH_WINDOW_SIZE, w.bytes)
            IN  IF ~w.ok
                THEN /\ pc' = "panic"
                     /\ UNCHANGED <<node_index, search_buffer, written>>
                ELSE /\ written' = written \o w.bytes
                     /\ IF pushed.ok
                        THEN /\ search_buffer' = pushed.vec
                             /\ node_index' = node_index + 1
                             /\ pc' = "replay"
                        ELSE /\ pc' = "panic"
                             /\ UNCHANGED <<node_index, search_buffer>>
    /\ UNCHANGED <<to_compress, byte_ptr, search_window, prefix_window, nodes, cursors,
                   encoded, file_bytes, bit_view, bitstream_offset, decoded,
                   length_in, length_out>>
    /\ UNCHANGED container_vars

Next ==
    \/ BuildStep
    \/ Serialise
    \/ AppendEndMarker
    \/ DeserialiseStart
    \/ DeserialiseStep
    \/ ReplayStep

Spec == Init /\ [][Next]_vars

\* the pipeline on the short inputs, with the loop of build_lz77_node_list
\* running on: the code is synchronous and single-threaded, an iteration
\* that can run does run
LiveInputs ==
    UNION {[1..n -> Alphabet] : n \in 0..MaxLiveLen} \cup {Scenario1, Ababb, SingleByte}

InitLive ==
    /\ Init
    /\ to_compress \in LiveInputs

SpecLive == InitLive /\ [][Next]_vars /\ WF_vars(BuildStep)

----------------------------------------------------------------------------
(* The codec on its own: serailise_nodes, append_end_marker and
   deserialise_nodes on token lists that need not come from the tokenizer
   (serialisation.rs, tests::serialise_and_deserialise_nodes) *)

\* 0xC0 is 1100 0000: with the tag 0 of the next literal the bits of the
\* end marker
CodecLiterals == {ByteLiteral(0), ByteLiteral(192)}

\* offsets on both sides of the short form's limit 128 and at the largest
\* value, lengths in every arm of serialise_length
CodecReferences ==
    {Reference(1, 2), Reference(127, 3), Reference(128, 4), Reference(2, 6),
     Reference(1, 7), Reference(128, 8), Reference(2047, 22), Reference(127, 23),
     Reference(2047, 2047)}

CodecTokens == CodecLiterals \cup CodecReferences

\* [Lit 'a', Lit 'b', Ref(2,2), Lit 'b'] (serialisation.rs:235)
FramingExample == <<ByteLiteral(97), ByteLiteral(98), Reference(2, 2), ByteLiteral(98)>>

\* every non-empty list of 1..MaxTokens codec tokens, and the example
TokenLists == UNION {[1..n -> CodecTokens] : n \in 1..MaxTokens} \cup {FramingExample}

InitCodec ==
    /\ pc = "serialise"
    /\ nodes \in TokenLists
    /\ to_compress = <<>>
    /\ byte_ptr = 0
    /\ search_window = 0
    /\ prefix_window = 0
    /\ cursors = <<>>
    /\ encoded = <<>>
    /\ file_bytes = <<>>
    /\ bit_view = <<>>
    /\ bitstream_offset = 0
    /\ decoded = <<>>
    /\ node_index = 0
    /\ search_buffer = <<>>
    /\ written = <<>>
    /\ length_in = 0
    /\ length_out = [ok |-> FALSE, length |-> 0, bits_read |-> 0]
    /\ ContainersIdle

NextCodec ==
    \/ Serialise
    \/ AppendEndMarker
    \/ DeserialiseStart
    \/ DeserialiseStep

SpecCodec == InitCodec /\ [][NextCodec]_vars

----------------------------------------------------------------------------
(* append_end_marker on arbitrary bit vectors
   (serialisation.rs, tests::append_end_marker_adds_byte_padding) *)

BitVectors == UNION {[1..n -> {0, 1}] : n \in 0..MaxBits}

InitMarker ==
    /\ pc = "end_marker"
    /\ encoded \in BitVectors
    /\ nodes = <<>>
    /\ to_compress = <<>>
    /\ byte_ptr = 0
    /\ search_window = 0
    /\ prefix_window = 0
    /\ cursors = <<>>
    /\ file_bytes = <<>>
    /\ bit_view = <<>>
    /\ bitstream_offset = 0
    /\ decoded = <<>>
    /\ node_index = 0
    /\ search_buffer = <<>>
    /\ written = <<>>
    /\ length_in = 0
    /\ length_out = [ok |-> FALSE, length |-> 0, bits_read |-> 0]
    /\ ContainersIdle

NextMarker == AppendEndMarker

SpecMarker == InitMarker /\ [][NextMarker]_vars

----------------------------------------------------------------------------
(* The length codec on its own: deserialise_length(&serialise_length(length))
   (serialisation.rs, tests::length_encode_decode_in_harmony) *)

InitLength ==
    /\ pc = "length"
    /\ length_in \in 2..MaxLength
    /\ length_out = [ok |-> FALSE, length |-> 0, bits_read |-> 0]
    /\ encoded = <<>>
    /\ nodes = <<>>
    /\ to_compress = <<>>
    /\ byte_ptr = 0
    /\ search_window = 0
    /\ prefix_window = 0
    /\ cursors = <<>>
    /\ file_bytes = <<>>
    /\ bit_view = <<>>
    /\ bitstream_offset = 0
    /\ decoded = <<>>
    /\ node_index = 0
    /\ search_buffer = <<>>
    /\ written = <<>>
    /\ ContainersIdle

\* serialise_length, then deserialise_length on the bits it returned
LengthCodec ==
    /\ pc = "length"
    /\ LET r == serialise_length(length_in)
       IN  IF r.ok
           THEN /\ encoded' = r.bits
                /\ length_out' = deserialise_length(r.bits)
                /\ pc' = IF length_out'.ok THEN "length_done" ELSE "panic"
           ELSE /\ pc' = "panic"
                /\ UNCHANGED <<encoded, length_out>>
    /\ UNCHANGED <<to_compress, byte_ptr, search_window, prefix_window, nodes, cursors,
                   file_bytes, bit_view, bitstream_offset, decoded, node_index,
                   search_buffer, written, length_in>>
    /\ UNCHANGED container_vars

NextLength == LengthCodec

SpecLength == InitLength /\ [][NextLength]_vars

----------------------------------------------------------------------------
(* deserialise_nodes on byte streams that need not come from the encoder
   (serialisation.rs:75) *)

\* longest byte stream handed to deserialise_nodes on its own
MaxStream == 3

\* 0x00, 0x30, 0xC0, 0xE0, 0xFF: 0x30 0xE0 0x00 is the stream of [Lit 'a'],
\* 0xC0 0x00 the stream of the empty node list, 0xFF a run of 1 bits
StreamBytes == {0, 48, 192, 224, 255}

Streams == UNION {[1..n -> StreamBytes] : n \in 0..MaxStream}

InitDecode ==
    /\ pc = "deserialise_start"
    /\ file_bytes \in Streams
    /\ to_compress = <<>>
    /\ byte_ptr = 0
    /\ search_window = 0
    /\ prefix_window = 0
    /\ nodes = <<>>
    /\ cursors = <<>>
    /\ encoded = <<>>
    /\ bit_view = <<>>
    /\ bitstream_offset = 0
    /\ decoded = <<>>
    /\ node_index = 0
    /\ search_buffer = <<>>
    /\ written = <<>>
    /\ length_in = 0
    /\ length_out = [ok |-> FALSE, length |-> 0, bits_read |-> 0]
    /\ ContainersIdle

NextDecode ==
    \/ DeserialiseStart
    \/ DeserialiseStep

SpecDecode == InitDecode /\ [][NextDecode]_vars

----------------------------------------------------------------------------
(* decompress_nodes on node lists that need not come from the tokenizer
   (compress.rs:105) *)

\* longest node list handed to decompress_nodes on its own
MaxReplay == 3

ReplayLiterals == {ByteLiteral(97), ByteLiteral(98)}

\* lengths below, at and above the offset, offsets up to and beyond the
\* history, and length 0
ReplayReferences ==
    {Reference(1, 1), Reference(1, 2), Reference(1, 3), Reference(2, 1),
     Reference(2, 2), Reference(2, 3), Reference(3, 1), Reference(1, 0),
     Reference(2, 0)}

ReplayTokens == ReplayLiterals \cup ReplayReferences \cup {EndOfStream}

ReplayLists == UNION {[1..n -> ReplayTokens] : n \in 1..MaxReplay}

InitReplay ==
    /\ pc = "replay"
    /\ decoded \in ReplayLists
    /\ to_compress = <<>>
    /\ byte_ptr = 0
    /\ search_window = 0
    /\ prefix_window = 0
    /\ nodes = <<>>
    /\ cursors = <<>>
    /\ encoded = <<>>
    /\ file_bytes = <<>>
    /\ bit_view = <<>>
    /\ bitstream_offset = 0
    /\ node_index = 0
    /\ search_buffer = <<>>
    /\ written = <<>>
    /\ length_in = 0
    /\ length_out = [ok |-> FALSE, length |-> 0, bits_read |-> 0]
    /\ ContainersIdle

NextReplay == ReplayStep

SpecReplay == InitReplay /\ [][NextReplay]_vars

----------------------------------------------------------------------------
(* ByteBuffer on its own: new(limit), then push_all calls
   (window_byte_container.rs:18, tests::push_all) *)

\* longest slice handed to one push_all
MaxPush == 5

\* push_all is called while fewer than this many elements have been handed in
MaxPushed == 5

\* ByteBuffer::new(4) in tests::push_all, and a smaller limit
BufferLimits == {2, 4}

PushSlices == UNION {[1..n -> {97, 98}] : n \in 0..MaxPush}

InitBuffer ==
    /\ pc = "push"
    /\ \E limit \in BufferLimits : byte_buffer = [vec |-> <<>>, limit |-> limit]
    /\ pushes = <<>>
    /\ byte_window = [bytes |-> <<>>, max_window_size |-> SEARCH_WINDOW_SIZE,
                      current_index |-> 0]
    /\ byte_locations = NoLocations
    /\ door = NoDoor
    /\ window_index = NoWindowIndex
    /\ to_compress = <<>>
    /\ byte_ptr = 0
    /\ search_window = 0
    /\ prefix_window = 0
    /\ nodes = <<>>
    /\ cursors = <<>>
    /\ encoded = <<>>
    /\ file_bytes = <<>>
    /\ bit_view = <<>>
    /\ bitstream_offset = 0
    /\ decoded = <<>>
    /\ node_index = 0
    /\ search_buffer = <<>>
    /\ written = <<>>
    /\ length_in = 0
    /\ length_out = [ok |-> FALSE, length |-> 0, bits_read |-> 0]

\* byte_buffer.push_all(elements)
PushAll ==
    /\ pc = "push"
    /\ Len(pushes) < MaxPushed
    /\ \E elements \in PushSlices :
           LET r == push_all(byte_buffer.vec, byte_buffer.limit, elements)
           IN  /\ pushes' = pushes \o elements
               /\ IF r.ok
                  THEN /\ byte_buffer' = [byte_buffer EXCEPT !.vec = r.vec]
                       /\ pc' = "push"
                  ELSE /\ byte_buffer' = byte_buffer
                       /\ pc' = "panic"
    /\ UNCHANGED <<byte_window, byte_locations, door, window_index>>
    /\ UNCHANGED pipeline_vars

NextBuffer == PushAll

SpecBuffer == InitBuffer /\ [][NextBuffer]_vars

----------------------------------------------------------------------------
(* IndexableByteWindow, and the ByteWindow it wraps, on their own:
   with_max_window_size(bytes, max), then forward advances and lookups
   (window_byte_container.rs:159, byte_window_tests) *)

\* longest slice over two byte values a window is put on
MaxBytes == 3

\* largest pointer an advance moves a window to
MaxPointer == 8

\* with_max_window_size(&bytes, 2) in byte_window_tests, and a smaller size
WindowSizes == {1, 2}

\* b"bcde" of byte_window_tests, and slices with repeated bytes
WindowBytes == {<<98, 99, 100, 101>>} \cup UNION {[1..n -> {98, 99}] : n \in 0..MaxBytes}

InitWindow ==
    /\ pc = "window"
    /\ \E bytes \in WindowBytes, max_window_size \in WindowSizes :
           byte_window = [bytes |-> bytes, max_window_size |-> max_window_size,
                          current_index |-> 0]
    /\ byte_locations = NoLocations
    /\ door = NoDoor
    /\ window_index = NoWindowIndex
    /\ byte_buffer = [vec |-> <<>>, limit |-> SEARCH_WINDOW_SIZE]
    /\ pushes = <<>>
    /\ to_compress = <<>>
    /\ byte_ptr = 0
    /\ search_window = 0
    /\ prefix_window = 0
    /\ nodes = <<>>
    /\ cursors = <<>>
    /\ encoded = <<>>
    /\ file_bytes = <<>>
    /\ bit_view = <<>>
    /\ bitstream_offset = 0
    /\ decoded = <<>>
    /\ node_index = 0
    /\ search_buffer = <<>>
    /\ written = <<>>
    /\ length_in = 0
    /\ length_out = [ok |-> FALSE, length |-> 0, bits_read |-> 0]

\* IndexableByteWindow::advance(count): ByteWindow::advance(count), which is
\* advance_to_pointer(current_index + count), then the update of the table
advance(count) ==
    LET new_pointer == byte_window.current_index + count
        result == advance_to_pointer(byte_window.bytes, byte_window.max_window_size,
                                     byte_window.current_index, new_pointer)
    IN  IF result.ok
        THEN /\ byte_window' = [byte_window EXCEPT !.current_index = new_pointer]
             /\ door' = [evicted |-> result.evicted, admitted |-> result.admitted,
                         window |-> result.window]
             /\ byte_locations' = update_byte_location_table(
                                      byte_locations, result.admitted,
                                      new_pointer - count, result.evicted)
             /\ pc' = "window"
        ELSE /\ pc' = "panic"
             /\ UNCHANGED <<byte_window, door, byte_locations>>

Advance ==
    /\ pc = "window"
    /\ \E count \in 0..(MaxPointer - byte_window.current_index) : advance(count)
    /\ UNCHANGED <<byte_buffer, pushes, window_index>>
    /\ UNCHANGED pipeline_vars

\* IndexableByteWindow::advance_to_pointer(pointer), forward:
\* self.advance(pointer - self.window.current_index)
AdvanceToPointer ==
    /\ pc = "window"
    /\ \E pointer \in byte_window.current_index..MaxPointer :
           advance(pointer - byte_window.current_index)
    /\ UNCHANGED <<byte_buffer, pushes, window_index>>
    /\ UNCHANGED pipeline_vars

\* location_to_window_index(location); window_index keeps the call (the
\* location and the pointer of the window at the call) with its result
LocationToWindowIndex ==
    /\ pc = "window"
    /\ \E location \in 0..(MaxPointer + 1) :
           LET r == location_to_window_index(byte_window.max_window_size,
                                             byte_window.current_index, location)
           IN  /\ window_index' = [called |-> TRUE, location |-> location,
                                   current_index |-> byte_window.current_index,
                                   ok |-> r.ok, index |-> r.index]
               /\ pc' = IF r.ok THEN "window" ELSE "panic"
    /\ UNCHANGED <<byte_buffer, pushes, byte_window, byte_locations, door>>
    /\ UNCHANGED pipeline_vars

NextWindow ==
    \/ Advance
    \/ AdvanceToPointer
    \/ LocationToWindowIndex

SpecWindow == InitWindow /\ [][NextWindow]_vars

----------------------------------------------------------------------------
(* src/lz77.rs, the earlier iteration of the compressor: every Node carries
   an offset, a length and the byte that follows the match, and the search
   window is SEARCH_WINDOW_SIZE = 2048 bytes.  Its serialise_length,
   deserialise_length, slice_to_offset, slice_to_byte and append_end_marker
   are the functions of lz77/serialisation.rs *)

\* lz77.rs: Node { offset, length, char }
LegacyNode(offset, length, char) == [offset |-> offset, length |-> length, char |-> char]

\* lz77.rs calculate_node: [ok, node]; the scan loop is the loop of
\* compress.rs, then a match that reaches the end of bytes_to_compressed is
\* shortened by one byte so that a next byte is left for the node
calculate_node(first_uncompressed_byte, compressed_bytes, bytes_to_compressed) ==
    LET best == ScanRange(first_uncompressed_byte, compressed_bytes, bytes_to_compressed,
                          0, Len(compressed_bytes) - 1, [offset |-> 0, length |-> 0])
    IN  IF best.length = 0
        THEN [ok |-> TRUE, node |-> LegacyNode(0, 0, first_uncompressed_byte)]
        ELSE LET length == IF best.length > Len(bytes_to_compressed)
                           THEN best.length - 1 ELSE best.length
                 in_range == 1 <= length /\ length <= Len(bytes_to_compressed)
             IN  [ok |-> in_range /\ best.offset <= U16_MAX /\ length <= U16_MAX,
                  node |-> LegacyNode(best.offset, length,
                                      IF in_range THEN At(bytes_to_compressed, length - 1)
                                      ELSE 0)]

\* the long offset form written with 12 bits
legacy_offset_field_12(offset) == IF offset < 128 THEN <<1>> \o LowBits(offset, 7) ELSE <<0>> \o LowBits(offset, 12)

\* lz77.rs serailise_nodes: the flag and the bits of node.offset,
\* x[U16_BIT_SIZE - 7..] or x[U16_BIT_SIZE - 11..]
legacy_offset_field(offset) ==
    IF offset < 128 THEN <<1>> \o LowBits(offset, 7) ELSE <<0>> \o LowBits(offset, 11)

\* lz77.rs serailise_nodes, the body of its loop: [ok, bits]
legacy_serialise_node(node) ==
    LET literal == LowBits(node.char, 8)
    IN  IF node.length > 0
        THEN LET length_encoded == serialise_length(node.length)
             IN  [ok |-> length_encoded.ok,
                  bits |-> <<1>> \o legacy_offset_field(node.offset)
                               \o length_encoded.bits \o literal]
        ELSE [ok |-> TRUE, bits |-> <<0>> \o literal]

\* lz77.rs serailise_nodes over ns[lo..hi] (1-based, inclusive)
RECURSIVE legacy_serialise_range(_, _, _)
legacy_serialise_range(ns, lo, hi) ==
    IF lo > hi THEN <<>>
    ELSE IF lo = hi THEN legacy_serialise_node(ns[lo]).bits
    ELSE LET mid == (lo + hi) \div 2
         IN  legacy_serialise_range(ns, lo, mid) \o legacy_serialise_range(ns, mid + 1, hi)

\* lz77.rs serailise_nodes: [ok, bits]
legacy_serailise_nodes(ns) ==
    [ok |-> \A i \in 1..Len(ns) : legacy_serialise_node(ns[i]).ok,
     bits |-> legacy_serialise_range(ns, 1, Len(ns))]

\* the node lz77.rs deserialise_nodes reads at bit offset `at` of bits:
\* [ok, node, next]
legacy_read_node(bits, at) ==
    LET panic == [ok |-> FALSE, node |-> NoNode, next |-> at]
    IN  IF At(bits, at) = 0
        THEN IF ~SliceOk(bits, at + 1, at + 9) THEN panic
             ELSE [ok |-> TRUE,
                   node |-> LegacyNode(0, 0, slice_to_byte(Slice(bits, at + 1, at + 9))),
                   next |-> at + 9]
        ELSE IF at + 1 >= Len(bits) THEN panic
        ELSE LET width == IF At(bits, at + 1) = 1 THEN 7 ELSE 11
                 start == at + 2
             IN  IF ~SliceOk(bits, start, start + width) THEN panic
                 ELSE LET offset == slice_to_offset(Slice(bits, start, start + width))
                          len == deserialise_length(
                                     Slice(bits, start + width, Len(bits)))
                          literal_at == start + width + len.bits_read
                      IN  IF ~len.ok \/ ~SliceOk(bits, literal_at, literal_at + 8) THEN panic
                          ELSE [ok |-> TRUE,
                                node |-> LegacyNode(offset, len.length,
                                             slice_to_byte(Slice(bits, literal_at,
                                                                 literal_at + 8))),
                                next |-> literal_at + 8]

\* tails that leave a byte after the second pair for the node's char
LegacyTails == {<<3>>, <<3, 4>>}

LegacyInputs ==
    ShortInputs \cup {Scenario1, SingleByte}
        \cup {LongInput(lead, gap, tail) :
                  lead \in LongLeads, gap \in LongGaps, tail \in LegacyTails}

\* Lz77Compression::compress of lz77.rs before its first step
InitLegacy ==
    /\ pc = "legacy_build"
    /\ to_compress \in LegacyInputs
    /\ byte_ptr = 0
    /\ search_window = 0
    /\ prefix_window = 0
    /\ nodes = <<>>
    /\ cursors = <<>>
    /\ encoded = <<>>
    /\ file_bytes = <<>>
    /\ bit_view = <<>>
    /\ bitstream_offset = 0
    /\ decoded = <<>>
    /\ node_index = 0
    /\ search_buffer = <<>>
    /\ written = <<>>
    /\ length_in = 0
    /\ length_out = [ok |-> FALSE, length |-> 0, bits_read |-> 0]
    /\ ContainersIdle

\* one iteration of the loop of lz77.rs build_lz77_node_list
LegacyBuildStep ==
    /\ pc = "legacy_build"
    /\ IF byte_ptr >= Len(to_compress)
       THEN \* to_compress[byte_ptr] is out of range
            /\ pc' = "panic"
            /\ UNCHANGED <<byte_ptr, nodes, cursors>>
       ELSE LET c == At(to_compress, byte_ptr)
                search_slice_start_index == SaturatingSub(byte_ptr, SEARCH_WINDOW_SIZE_2048)
                search_slice_end_index == byte_ptr
                prefix_slice_start_index == byte_ptr + 1
                prefix_slice_end_index == Min(byte_ptr + PREFIX_WINDOW_SIZE,
                                              Len(to_compress))
                slices_ok == /\ SliceOk(to_compress, search_slice_start_index,
                                        search_slice_end_index)
                             /\ SliceOk(to_compress, prefix_slice_start_index,
                                        prefix_slice_end_index)
                found == calculate_node(
                             c,
                             Slice(to_compress, search_slice_start_index,
                                   search_slice_end_index),
                             Slice(to_compress, prefix_slice_start_index,
                                   prefix_slice_end_index))
            IN  IF ~slices_ok \/ ~found.ok
                THEN /\ pc' = "panic"
                     /\ UNCHANGED <<byte_ptr, nodes, cursors>>
                ELSE /\ nodes' = Append(nodes, found.node)
                     /\ cursors' = Append(cursors, byte_ptr)
                     /\ byte_ptr' = byte_ptr + 1 + found.node.length
                     /\ pc' = IF byte_ptr' > Len(to_compress) - 1
                              THEN "legacy_serialise" ELSE "legacy_build"
    /\ UNCHANGED <<to_compress, search_window, prefix_window, encoded, file_bytes,
                   bit_view, bitstream_offset, decoded, node_index, search_buffer,
                   written, length_in, length_out>>
    /\ UNCHANGED container_vars

\* Lz77Compression::compress: serailise_nodes(&nodes)
LegacySerialise ==
    /\ pc = "legacy_serialise"
    /\ LET r == legacy_serailise_nodes(nodes)
       IN  IF r.ok
           THEN encoded' = r.bits /\ pc' = "legacy_end_marker"
           ELSE encoded' = encoded /\ pc' = "panic"
    /\ UNCHANGED <<to_compress, byte_ptr, search_window, prefix_window, nodes, cursors,
                   file_bytes, bit_view, bitstream_offset, decoded, node_index,
                   search_buffer, written, length_in, length_out>>
    /\ UNCHANGED container_vars

\* Lz77Compression::compress: append_end_marker(&mut encoded_nodes), then
\* the conversion of the bit vector into bytes
LegacyAppendEndMarker ==
    /\ pc = "legacy_end_marker"
    /\ encoded' = append_end_marker(encoded)
    /\ file_bytes' = bitvec_into_bytes(encoded')
    /\ pc' = "legacy_deserialise_start"
    /\ UNCHANGED <<to_compress, byte_ptr, search_window, prefix_window, nodes, cursors,
                   bit_view, bitstream_offset, decoded, node_index, search_buffer, written,
                   length_in, length_out>>
    /\ UNCHANGED container_vars

\* the entry of lz77.rs deserialise_nodes
LegacyDeserialiseStart ==
    /\ pc = "legacy_deserialise_start"
    /\ bit_view' = view_bits(file_bytes)
    /\ bitstream_offset' = 0
    /\ decoded' = <<>>
    /\ pc' = "legacy_deserialise"
    /\ UNCHANGED <<to_compress, byte_ptr, search_window, prefix_window, nodes, cursors,
                   encoded, file_bytes, node_index, search_buffer, written,
                   length_in, length_out>>
    /\ UNCHANGED container_vars

\* one iteration of the loop of lz77.rs deserialise_nodes
LegacyDeserialiseStep ==
    /\ pc = "legacy_deserialise"
    /\ IF ~(bitstream_offset < Len(bit_view))
       THEN /\ pc' = "legacy_done"
            /\ UNCHANGED <<bitstream_offset, decoded>>
       ELSE LET r == legacy_read_node(bit_view, bitstream_offset)
            IN  IF ~r.ok \/ ~SliceOk(bit_view, r.next, r.next + 9)
                THEN /\ pc' = "panic"
                     /\ UNCHANGED <<bitstream_offset, decoded>>
                ELSE /\ decoded' = Append(decoded, r.node)
                     /\ bitstream_offset' = r.next
                     /\ pc' = IF Slice(bit_view, r.next, r.next + 9) = end_of_stream_marker
                              THEN "legacy_done" ELSE "legacy_deserialise"
    /\ UNCHANGED <<to_compress, byte_ptr, search_window, prefix_window, nodes, cursors,
                   encoded, file_bytes, bit_view, node_index, search_buffer, written,
                   length_in, length_out>>
    /\ UNCHANGED container_vars

NextLegacy ==
    \/ LegacyBuildStep
    \/ LegacySerialise
    \/ LegacyAppendEndMarker
    \/ LegacyDeserialiseStart
    \/ LegacyDeserialiseStep

SpecLegacy == InitLegacy /\ [][NextLegacy]_vars

----------------------------------------------------------------------------
(* Properties *)

\* number of input bytes a node stands for
NodeSize(node) == IF node.type = "Reference" THEN node.length ELSE 1

IsReference(node) == node.type = "Reference"

IsLiteral(node) == node.type = "ByteLiteral"

\* the pipeline has left the stage named by pc for a later one
AfterBuild == pc \in {"serialise", "end_marker", "deserialise_start", "deserialise",
                      "replay", "done"}

AfterEndMarker == pc \in {"deserialise_start", "deserialise", "replay", "done"}

AfterDeserialise == pc \in {"replay", "done"}

\* C1 (round trip): for every input of at least one byte, no stage of
\* compress_bytes / decompress_bytes panics, and when the replayer has
\* returned, the bytes written to the sink are exactly the input.
C1_RoundTrip ==
    Len(to_compress) >= 1 =>
        /\ pc # "panic"
        /\ (pc = "done" => written = to_compress)

\* C1 witness: an input longer than the search window, tokenized with a
\* Reference at the largest offset, has been replayed to the end.
C1_Witness ==
    /\ pc = "done"
    /\ Len(to_compress) > SEARCH_WINDOW_SIZE
    /\ written = to_compress
    /\ \E k \in 1..Len(decoded) :
           IsReference(decoded[k]) /\ decoded[k].offset = SEARCH_WINDOW_SIZE

\* C2 (token coverage): on a non-empty input the nodes cover the input once
\* and in order: each node starts where the previous one ended, the first at
\* 0, the cursor is the end of the last one and is the input length once the
\* tokenizer has returned; a ByteLiteral emitted at p carries B[p]; a
\* Reference(o, L) emitted at p lies inside the input and B[p+j] = B[p-o+j]
\* for all j < L.
C2_TokenCoverage ==
    Len(to_compress) >= 1 =>
        /\ Len(cursors) = Len(nodes)
        /\ \A k \in 1..Len(nodes) :
               cursors[k] = IF k = 1 THEN 0 ELSE cursors[k - 1] + NodeSize(nodes[k - 1])
        /\ byte_ptr = IF nodes = <<>> THEN 0
                      ELSE cursors[Len(nodes)] + NodeSize(nodes[Len(nodes)])
        /\ (AfterBuild => byte_ptr = Len(to_compress))
        /\ \A k \in 1..Len(nodes) :
               LET p == cursors[k]
                   n == nodes[k]
               IN  /\ IsLiteral(n) \/ IsReference(n)
                   /\ IsLiteral(n) => p < Len(to_compress) /\ n.lit = At(to_compress, p)
                   /\ IsReference(n) =>
                          /\ n.offset <= p
                          /\ p + n.length <= Len(to_compress)
                          /\ \A j \in 0..(n.length - 1) :
                                 At(to_compress, p + j) = At(to_compress, p - n.offset + j)

\* C2 witness: the tokenizer has returned on an input it covered with
\* literals and at least one Reference of three bytes or more.
C2_Witness ==
    /\ pc = "serialise"
    /\ byte_ptr = Len(to_compress)
    /\ \E k \in 1..Len(nodes) : IsReference(nodes[k]) /\ nodes[k].length >= 3
    /\ \E k \in 1..Len(nodes) : IsLiteral(nodes[k])

\* C3 (offset bound): every Reference emitted at cursor p has an offset o
\* with 1 <= o <= 2047 and o <= p.
C3_OffsetBound ==
    \A k \in 1..Len(nodes) :
        IsReference(nodes[k]) =>
            /\ 1 <= nodes[k].offset
            /\ nodes[k].offset <= 2047
            /\ nodes[k].offset <= cursors[k]

\* C3 witness: a Reference with offset 2047 has been emitted at a cursor
\* that has more than 2047 bytes before it.
C3_Witness ==
    \E k \in 1..Len(nodes) :
        IsReference(nodes[k]) /\ nodes[k].offset = 2047 /\ cursors[k] > 2047

\* C4 (no single-byte references): every emitted Reference has length >= 2.
C4_NoSingleByteReference ==
    \A k \in 1..Len(nodes) : IsReference(nodes[k]) => nodes[k].length >= 2

\* C4 witness: a byte that occurs in the search window, but is not followed
\* there by the byte that follows it at the cursor, was emitted as a
\* ByteLiteral.
C4_Witness ==
    \E k \in 1..Len(nodes) :
        /\ IsLiteral(nodes[k])
        /\ \E j \in SaturatingSub(cursors[k], SEARCH_WINDOW_SIZE)..(cursors[k] - 1) :
               At(to_compress, j) = nodes[k].lit
        /\ cursors[k] + 1 < Len(to_compress)

\* the nodes the tokenizer emits for "ababcbababaa" according to
\* mod.rs, tests::decompresses_to_original_bytes
Scenario1Claimed ==
    <<ByteLiteral(97), ByteLiteral(98), Reference(2, 2), ByteLiteral(99),
      Reference(4, 3), ByteLiteral(97), Reference(2, 2), ByteLiteral(97)>>

\* the nodes the tokenizer emits for "ababcbababaa" according to
\* compress.rs, tests::builds_a_node_list
Scenario1Greedy ==
    <<ByteLiteral(97), ByteLiteral(98), Reference(2, 2), ByteLiteral(99),
      Reference(4, 3), Reference(2, 2), ByteLiteral(97), ByteLiteral(97)>>

PairwiseDistinct(s) == Cardinality({s[i] : i \in 1..Len(s)}) = Len(s)

\* C10 (literal-only bound): for a non-empty input of pairwise distinct
\* bytes, the stream after serailise_nodes and append_end_marker has
\* 9*|B| + 9 + pad bits with pad in 0..7 and the total a multiple of 8, and
\* the file has that many bits' bytes; the input [0x5A] gives the single
\* node Lit 0x5A and 3 bytes.
C10_LiteralOnlyBound ==
    /\ (AfterEndMarker /\ Len(to_compress) >= 1 /\ PairwiseDistinct(to_compress)) =>
           LET pad == Len(encoded) - (9 * Len(to_compress) + 9)
           IN  /\ pad \in 0..7
               /\ Len(encoded) % 8 = 0
               /\ 8 * Len(file_bytes) = Len(encoded)
    /\ (to_compress = SingleByte /\ AfterEndMarker) =>
           /\ nodes = <<ByteLiteral(90)>>
           /\ Len(file_bytes) = 3

\* C10 witness: an input of 7 pairwise distinct bytes has been compressed;
\* its 72 bits need no padding.
C10_Witness ==
    /\ AfterEndMarker
    /\ Len(to_compress) = 7
    /\ PairwiseDistinct(to_compress)
    /\ Len(encoded) = 72

\* s is a proper prefix of t
IsProperPrefix(s, t) == Len(s) < Len(t) /\ s = SubSeq(t, 1, Len(s))

\* C5 (codec round trip): for every non-empty well-formed token list,
\* deserialise_nodes on the bytes of serailise_nodes followed by
\* append_end_marker does not panic and returns exactly the list: while it
\* is reading it holds a proper prefix of the list, it stops with the whole
\* list, at the end marker, and the padding after the marker adds no node.
C5_CodecRoundTrip ==
    /\ pc # "panic"
    /\ (pc = "deserialise" => IsProperPrefix(decoded, nodes))
    /\ AfterDeserialise =>
           /\ decoded = nodes
           /\ Slice(bit_view, bitstream_offset, bitstream_offset + 9) = end_of_stream_marker
           /\ Len(bit_view) - (bitstream_offset + 9) \in 0..7

\* C5 witness: a list of three tokens with a literal 0xC0, whose bits
\* start like the marker, and the longest Reference has been decoded.
C5_Witness ==
    /\ pc = "replay"
    /\ Len(nodes) = 3
    /\ decoded = nodes
    /\ nodes[1] = Reference(2047, 2047)
    /\ nodes[2] = ByteLiteral(192)
    /\ nodes[3] = Reference(1, 2)

\* C6 (length codec harmony): for every length in 2..2047,
\* deserialise_length(serialise_length(length)) returns (length, n) with n
\* the number of bits serialise_length produced; neither function panics.
C6_LengthHarmony ==
    /\ pc # "panic"
    /\ pc = "length_done" =>
           /\ length_out.ok
           /\ length_out.length = length_in
           /\ length_out.bits_read = Len(encoded)

\* C6 witness: length 1024 has been encoded in 276 bits and decoded.
C6_Witness ==
    /\ pc = "length_done"
    /\ length_in = 1024
    /\ Len(encoded) = 276
    /\ length_out.length = 1024

\* number of bits a token is framed in: 9 for a ByteLiteral; for a
\* Reference the two tag bits, 7 or 11 offset bits and the length code
FrameSize(node) ==
    IF IsLiteral(node) THEN 9
    ELSE 2 + (IF node.offset < 128 THEN 7 ELSE 11) + Len(serialise_length(node.length).bits)

\* bit position at which the frame of the k-th token starts
RECURSIVE FrameStart(_, _)
FrameStart(ns, k) == IF k = 1 THEN 0 ELSE FrameStart(ns, k - 1) + FrameSize(ns[k - 1])

\* value of the bits s[a..b), most significant first
BitsValue(s, a, b) == slice_to_offset(Slice(s, a, b))

\* 0 01100001 0 01100010 1 1 0000010 00 0 01100010
FramingExampleBits ==
    <<0, 0, 1, 1, 0, 0, 0, 0, 1>> \o <<0, 0, 1, 1, 0, 0, 0, 1, 0>>
    \o <<1, 1, 0, 0, 0, 0, 0, 1, 0, 0, 0>> \o <<0, 0, 1, 1, 0, 0, 0, 1, 0>>

\* C8 (token framing): serailise_nodes writes the tokens in order with
\* nothing between them; a ByteLiteral(b) is tag 0 and the 8 bits of b; a
\* Reference(o, L) is tag 1, then flag 1 and 7 bits of o when o < 128,
\* otherwise flag 0 and 11 bits of o, then the length code of L; and
\* [Lit 'a', Lit 'b', Ref(2,2), Lit 'b'] gives the 38 bits of the example.
C8_TokenFraming ==
    pc = "end_marker" =>
        /\ Len(encoded) = FrameStart(nodes, Len(nodes) + 1)
        /\ \A k \in 1..Len(nodes) :
               LET at == FrameStart(nodes, k)
                   n == nodes[k]
                   width == IF n.offset < 128 THEN 7 ELSE 11
               IN  /\ IsLiteral(n) =>
                          /\ At(encoded, at) = 0
                          /\ BitsValue(encoded, at + 1, at + 9) = n.lit
                   /\ IsReference(n) =>
                          /\ At(encoded, at) = 1
                          /\ At(encoded, at + 1) = (IF n.offset < 128 THEN 1 ELSE 0)
                          /\ BitsValue(encoded, at + 2, at + 2 + width) = n.offset % 2048
                          /\ Slice(encoded, at + 2 + width, at + FrameSize(n))
                                 = serialise_length(n.length).bits
        /\ (nodes = FramingExample => encoded = FramingExampleBits)

\* C8 witness: the example list has been serialised to 38 bits.
C8_Witness ==
    /\ pc = "end_marker"
    /\ nodes = FramingExample
    /\ Len(encoded) = 38

\* C9 (end marker and padding): append_end_marker leaves the n bits it is
\* given unchanged, appends the 9 bits 110000000 and then only 0 bits, as
\* few (0..7) as make the total a multiple of 8.
C9_EndMarkerPadding ==
    [][pc = "end_marker" =>
          LET n == Len(encoded)
              pad == Len(encoded') - (n + 9)
          IN  /\ pc' = "deserialise_start"
              /\ pad \in 0..7
              /\ Len(encoded') % 8 = 0
              /\ SubSeq(encoded', 1, n) = encoded
              /\ SubSeq(encoded', n + 1, n + 9) = <<1, 1, 0, 0, 0, 0, 0, 0, 0>>
              /\ \A i \in (n + 10)..Len(encoded') : encoded'[i] = 0]_vars

\* C9 witness: the marker and no padding have been appended to seven bits
\* (serialisation.rs:329 appends to three bits and pads four).
C9_Witness ==
    /\ pc = "deserialise_start"
    /\ Len(encoded) = 16
    /\ SubSeq(encoded, 1, 7) = <<1, 0, 1, 1, 0, 0, 1>>
    /\ SubSeq(encoded, 8, 16) = end_of_stream_marker


\* the first 9 bits of the byte stream are the end marker
MarkerPrefixed ==
    /\ Len(file_bytes) >= 2
    /\ SubSeq(view_bits(file_bytes), 1, 9) = <<1, 1, 0, 0, 0, 0, 0, 0, 0>>

\* C11 (marker rejection): on a byte stream whose first 9 bits are
\* 110000000, such as C0 00, deserialise_nodes does not panic and returns
\* the empty node list.
C11_MarkerRejection ==
    MarkerPrefixed =>
        /\ pc # "panic"
        /\ (pc = "replay" => decoded = <<>>)

\* deserialise_nodes has decoded a node and found the marker right after it
MarkerRecognised ==
    /\ decoded # <<>>
    /\ SliceOk(bit_view, bitstream_offset, bitstream_offset + 9)
    /\ Slice(bit_view, bitstream_offset, bitstream_offset + 9)
           = <<1, 1, 0, 0, 0, 0, 0, 0, 0>>

\* C12 (malformed stream): when the bits end before the marker has been
\* recognised, deserialise_nodes neither returns a node list (pc "replay")
\* nor aborts (pc "panic"): it fails with an error value, the empty stream
\* included.
C12_MalformedStream ==
    ~MarkerRecognised => pc \notin {"replay", "panic"}


\* C13 (empty input): build_lz77_node_list on the empty slice returns
\* normally and hands no node to the callback.
C13_EmptyInput ==
    to_compress = <<>> =>
        /\ pc # "panic"
        /\ (AfterBuild => nodes = <<>>)

\* the search window and the prefix window of the tokenizer at cursor p
SearchAt(p) == Slice(to_compress, SaturatingSub(p, SEARCH_WINDOW_SIZE), p)

PrefixAt(p) ==
    Slice(to_compress, p + 1, Min(Len(to_compress), p + PREFIX_WINDOW_SIZE + 1))

\* length of the candidate match at index i of search: 1 for the byte c and
\* the longest common prefix of search[i+1..] and prefix; 0 when search[i]
\* is not c
CandidateLength(c, search, prefix, i) ==
    IF At(search, i) = c
    THEN 1 + common_prefix(Slice(search, i + 1, Len(search)), prefix, 0,
                           Min(Len(search) - (i + 1), Len(prefix)))
    ELSE 0

\* C20 (longest match): the length of every emitted Reference is the
\* largest candidate length over the indices of the search window: no
\* candidate is longer, and one is as long.
C20_LongestMatch ==
    \A k \in 1..Len(nodes) :
        IsReference(nodes[k]) =>
            LET p == cursors[k]
                c == At(to_compress, p)
                search == SearchAt(p)
                prefix == PrefixAt(p)
            IN  /\ \A i \in 0..(Len(search) - 1) :
                       CandidateLength(c, search, prefix, i) <= nodes[k].length
                /\ \E i \in 0..(Len(search) - 1) :
                       CandidateLength(c, search, prefix, i) = nodes[k].length


\* the replayer is about to handle a Reference
ReplayingReference ==
    /\ pc = "replay"
    /\ node_index < Len(decoded)
    /\ IsReference(decoded[node_index + 1])

\* the byte-by-byte copy of length bytes from offset bytes before the end of
\* buffer, each copied byte appended before the next is read
OverlappingCopy(buffer, offset, length) ==
    [j \in 1..length |-> buffer[Len(buffer) - offset + ((j - 1) % offset) + 1]]

\* C14 (reference to self): with at least one byte in the history, the
\* replayer accepts Reference(1, L) for every L >= 1 and writes L copies of
\* the last byte; any Reference with 1 <= offset <= history length whose
\* length exceeds its offset is accepted and replayed as the overlapping
\* byte-by-byte copy.
C14_ReferenceToSelf ==
    [][(/\ ReplayingReference
        /\ decoded[node_index + 1].offset >= 1
        /\ decoded[node_index + 1].offset <= Len(search_buffer)
        /\ decoded[node_index + 1].length >= 1
        /\ \/ decoded[node_index + 1].offset = 1
           \/ decoded[node_index + 1].length > decoded[node_index + 1].offset)
       => /\ pc' = "replay"
          /\ written' = written \o OverlappingCopy(search_buffer,
                                                   decoded[node_index + 1].offset,
                                                   decoded[node_index + 1].length)]_vars

\* C15 (replayer out of range): a Reference whose offset exceeds the length
\* of the history buffer, or whose length is 0, makes the replayer fail with
\* an error: it neither carries on with the next node nor panics, and the
\* node writes no bytes.
C15_OutOfRange ==
    [][(/\ ReplayingReference
        /\ \/ decoded[node_index + 1].offset > Len(search_buffer)
           \/ decoded[node_index + 1].length = 0)
       => /\ pc' \notin {"replay", "panic"}
          /\ written' = written]_vars


\* the last n elements of s, all of s when it has fewer
LastElements(s, n) == SubSeq(s, Len(s) - Min(n, Len(s)) + 1, Len(s))

\* C16 (ByteBuffer FIFO cap): every push_all(elems), whatever the length of
\* elems, returns normally, drops exactly max(0, len + elems.len - limit)
\* elements from the front and appends elems; after any sequence of calls
\* the buffer holds, in order, the last min(limit, total pushed) elements
\* and never more than limit.
C16_FifoCap ==
    [][pc = "push" =>
          LET elems == SubSeq(pushes', Len(pushes) + 1, Len(pushes'))
              len == Len(byte_buffer.vec)
              drop == SaturatingSub(len + Len(elems), byte_buffer.limit)
          IN  /\ pc' = "push"
              /\ byte_buffer'.vec = SubSeq(byte_buffer.vec, drop + 1, len) \o elems
              /\ Len(byte_buffer'.vec) <= byte_buffer'.limit
              /\ byte_buffer'.vec = LastElements(pushes', byte_buffer'.limit)]_vars


\* bytes[max(0, p - max) .. min(p, N)] of a window at pointer p, empty when
\* that range is empty
VisibleWindow(bytes, max, p) ==
    LET lo == IF p - max > 0 THEN p - max ELSE 0
        hi == IF p < Len(bytes) THEN p ELSE Len(bytes)
    IN  IF lo < hi THEN SubSeq(bytes, lo + 1, hi) ELSE <<>>

\* C17 (visible window): a new ByteWindow has an empty window, and after
\* every sequence of forward advances that returned, ending at pointer p,
\* the window the last advance returned and window() are both
\* bytes[max(0, p - max) .. min(p, N)], of at most max bytes.
C17_VisibleWindow ==
    LET visible == VisibleWindow(byte_window.bytes, byte_window.max_window_size,
                                 byte_window.current_index)
    IN  /\ door.window = visible
        /\ window(byte_window.bytes, byte_window.max_window_size,
                  byte_window.current_index) = visible
        /\ Len(visible) <= byte_window.max_window_size
        /\ (byte_window.current_index = 0 => visible = <<>>)

\* C17 witness: advance_to_pointer(3) on b"bcde" with max 2 has returned the
\* window "cd" and evicted "b" (byte_window_tests::advance_to_pointer).
C17_Witness ==
    /\ pc = "window"
    /\ byte_window = [bytes |-> <<98, 99, 100, 101>>, max_window_size |-> 2,
                      current_index |-> 3]
    /\ door = [evicted |-> <<98>>, admitted |-> <<98, 99, 100>>, window |-> <<99, 100>>]

\* C18 (advancing past the end): every forward advance, to any pointer,
\* returns normally; the window it returns is empty once p - max >= N, and
\* admitted is empty when the pointer was at or past N before the call.
\* (A step that leaves window_index alone is an advance.)
C18_AdvancePastEnd ==
    [][(pc = "window" /\ window_index' = window_index)
       => /\ pc' = "window"
          /\ (byte_window'.current_index - byte_window.max_window_size
                  >= Len(byte_window.bytes) => door'.window = <<>>)
          /\ (byte_window.current_index >= Len(byte_window.bytes)
                  => door'.admitted = <<>>)]_vars

\* location abs is a position of the visible window of a window at pointer p
InsideVisible(bytes, max, p, abs) ==
    /\ abs >= (IF p - max > 0 THEN p - max ELSE 0)
    /\ abs < (IF p < Len(bytes) THEN p ELSE Len(bytes))

C21_TieBreak ==
    \A k \in 1..Len(nodes) :
        IsReference(nodes[k]) =>
            LET p == cursors[k]
                c == At(to_compress, p)
                search == SearchAt(p)
                prefix == PrefixAt(p)
            IN  \A i \in 0..(Len(search) - 1) :
                    CandidateLength(c, search, prefix, i) = nodes[k].length
                        => Len(search) - i >= nodes[k].offset

\* C21 witness: a Reference has been emitted while a candidate of the same
\* length lay farther from the cursor.
C21_Witness ==
    \E k \in 1..Len(nodes) :
        /\ IsReference(nodes[k])
        /\ \E i \in 0..(Len(SearchAt(cursors[k])) - 1) :
               /\ CandidateLength(At(to_compress, cursors[k]), SearchAt(cursors[k]),
                                  PrefixAt(cursors[k]), i) = nodes[k].length
               /\ Len(SearchAt(cursors[k])) - i > nodes[k].offset


\* some index of the search window at cursor p holds B[p] and is followed,
\* inside the window, by a byte equal to B[p+1]; j is the position in the
\* input of index j - max(0, p - 2047) of the window
HasTwoByteMatch(p) ==
    /\ p + 1 < Len(to_compress)
    /\ \E j \in SaturatingSub(p, SEARCH_WINDOW_SIZE)..(p - 2) :
           /\ At(to_compress, j) = At(to_compress, p)
           /\ At(to_compress, j + 1) = At(to_compress, p + 1)

AbabbNodes == <<ByteLiteral(97), ByteLiteral(98), Reference(2, 2), ByteLiteral(98)>>

\* C23 (tokenizer termination): on a non-empty input of length N no
\* iteration of build_lz77_node_list panics, each moves the cursor forward
\* by at least 1 and not beyond N, a Reference emitted at p has
\* p + length <= N, the loop goes on exactly while the cursor is below N and
\* so exits with the cursor equal to N, and it does exit; "ababb" gives
\* [Lit a, Lit b, Ref(2,2), Lit b].
C23_Termination ==
    /\ [][(pc = "build" /\ Len(to_compress) >= 1) =>
              /\ pc' \in {"build", "serialise"}
              /\ byte_ptr' >= byte_ptr + 1
              /\ byte_ptr' <= Len(to_compress)
              /\ (pc' = "serialise" <=> byte_ptr' = Len(to_compress))
              /\ Len(nodes') = Len(nodes) + 1
              /\ IsReference(nodes'[Len(nodes')]) =>
                     byte_ptr + nodes'[Len(nodes')].length <= Len(to_compress)]_vars
    /\ []((to_compress = Ababb /\ AfterBuild) => nodes = AbabbNodes)
    /\ ((pc = "build" /\ Len(to_compress) >= 1) ~> (pc = "serialise"))

\* C23 witness: the tokenizer has returned on "ababb" with the cursor at 5,
\* the last byte emitted as a ByteLiteral.
C23_Witness ==
    /\ pc = "serialise"
    /\ to_compress = Ababb
    /\ byte_ptr = 5
    /\ nodes = AbabbNodes


\* n copies of the nibble 1111
OneBlocks(n) == [i \in 1..(4 * n) |-> 1]

\* C24 (length code): serialise_length gives 00, 01, 10 for 2, 3, 4 and
\* 1100, 1101, 1110 for 5, 6, 7; for a length of 8 or more it gives
\* k = floor((length + 7) / 15) nibbles 1111 and then the 4-bit value
\* v = length - (15k - 7), which is in 0..14, 4(k + 1) bits in all; 8 gives
\* 1111 0000, 22 gives 1111 1110, 23 gives 1111 1111 0000, 37 gives
\* 1111 1111 1110 and 1024 gives 276 bits.
C24_LengthCode ==
    /\ pc # "panic"
    /\ pc = "length_done" =>
           /\ (length_in = 2 => encoded = <<0, 0>>)
           /\ (length_in = 3 => encoded = <<0, 1>>)
           /\ (length_in = 4 => encoded = <<1, 0>>)
           /\ (length_in = 5 => encoded = <<1, 1, 0, 0>>)
           /\ (length_in = 6 => encoded = <<1, 1, 0, 1>>)
           /\ (length_in = 7 => encoded = <<1, 1, 1, 0>>)
           /\ length_in >= 8 =>
                  LET k == (length_in + 7) \div 15
                      v == length_in - (15 * k - 7)
                  IN  /\ v \in 0..14
                      /\ Len(encoded) = 4 * (k + 1)
                      /\ SubSeq(encoded, 1, 4 * k) = OneBlocks(k)
                      /\ BitsValue(encoded, 4 * k, 4 * k + 4) = v
                      /\ SubSeq(encoded, 4 * k + 1, 4 * k + 4) # <<1, 1, 1, 1>>
           /\ (length_in = 8 => encoded = <<1, 1, 1, 1, 0, 0, 0, 0>>)
           /\ (length_in = 22 => encoded = <<1, 1, 1, 1, 1, 1, 1, 0>>)
           /\ (length_in = 23 => encoded = <<1, 1, 1, 1, 1, 1, 1, 1, 0, 0, 0, 0>>)
           /\ (length_in = 37 => encoded = <<1, 1, 1, 1, 1, 1, 1, 1, 1, 1, 1, 0>>)
           /\ (length_in = 1024 => Len(encoded) = 276)

\* C24 witness: length 37 has been encoded as 1111 1111 1110.
C24_Witness ==
    /\ pc = "length_done"
    /\ length_in = 37
    /\ encoded = <<1, 1, 1, 1, 1, 1, 1, 1, 1, 1, 1, 0>>

\* C25 as stated: serialise_length(1024) is 68 nibbles 1111 followed by the
\* nibble 1001 (v = 9).
C25_AsClaimed ==
    (length_in = 1024 /\ pc \in {"length_done", "panic"}) =>
        /\ pc = "length_done"
        /\ encoded = OneBlocks(68) \o <<1, 0, 0, 1>>

\* C25 as amended: serialise_length(1024) is 68 nibbles 1111 followed by the
\* nibble 1011: v = 1024 - (15 * 68 - 7) = 11.
C25_Length1024 ==
    (length_in = 1024 /\ pc \in {"length_done", "panic"}) =>
        /\ pc = "length_done"
        /\ encoded = OneBlocks(68) \o <<1, 0, 1, 1>>

\* C25 witness: length 1024 has been encoded with the last nibble 1011.
C25_Witness ==
    /\ pc = "length_done"
    /\ length_in = 1024
    /\ SubSeq(encoded, 273, 276) = <<1, 0, 1, 1>>


\* the replayer has already handled an EndOfStream token
PastEndOfStream ==
    \E i \in 1..node_index : decoded[i].type = "EndOfStream"

\* C26 (replayer halts at EndOfStream): once decompress_nodes has met an
\* EndOfStream token, the tokens that follow it write no bytes to the sink
\* and add nothing to the history buffer.
C26_HaltsAtEndOfStream ==
    [][(pc = "replay" /\ PastEndOfStream)
       => /\ written' = written
          /\ search_buffer' = search_buffer]_vars


\* byte_locations.get(v), an absent key taken as the empty list
LocationsOf(v) == IF v \in DOMAIN byte_locations THEN byte_locations[v] ELSE <<>>

\* the absolute positions inside the visible window that hold the byte v
VisiblePositions(v) ==
    {i \in SaturatingSub(byte_window.current_index, byte_window.max_window_size)
            ..(Min(Len(byte_window.bytes), byte_window.current_index) - 1) :
        At(byte_window.bytes, i) = v}

\* list is the ascending enumeration of the set positions
IsAscendingListOf(list, positions) ==
    /\ Len(list) = Cardinality(positions)
    /\ \A j \in 1..Len(list) : list[j] \in positions
    /\ \A j \in 1..(Len(list) - 1) : list[j] < list[j + 1]

\* C27 (byte-location index): after any forward advances that keep the
\* pointer within N + max, for every byte value v the list byte_locations[v]
\* (empty when absent) is the ascending list of the absolute positions inside
\* the visible window that hold v.
C27_ByteLocations ==
    byte_window.current_index <= Len(byte_window.bytes) + byte_window.max_window_size =>
        \A v \in 0..U8_MAX : IsAscendingListOf(LocationsOf(v), VisiblePositions(v))

\* C27 witness: advance(5) on b"bcde" with a window of 2 has admitted and
\* evicted b, c and d in one call, and only e at position 3 is listed.
C27_Witness ==
    /\ byte_window = [bytes |-> <<98, 99, 100, 101>>, max_window_size |-> 2,
                      current_index |-> 5]
    /\ door.admitted = <<98, 99, 100, 101>>
    /\ door.evicted = <<98, 99, 100>>
    /\ LocationsOf(101) = <<3>>
    /\ LocationsOf(98) = <<>>


\* C30 (advance conservation): for every forward advance_to_pointer(p) with
\* p <= N + max, (window before the call) ++ admitted equals
\* evicted ++ (window after the call), admitted is
\* bytes[min(old pointer, N) .. min(p, N)] and evicted is
\* bytes[max(0, old pointer - max) .. max(0, p - max)].
C30_AdvanceConservation ==
    [][pc = "window"
       => LET bytes == byte_window.bytes
              max == byte_window.max_window_size
              old == byte_window.current_index
              p == byte_window'.current_index
              N == Len(bytes)
              before == window(bytes, max, old)
          IN  /\ \A pointer \in old..(N + max) :
                     advance_to_pointer(bytes, max, old, pointer).ok
              /\ (pc' = "window" /\ window_index' = window_index /\ p <= N + max)
                 => /\ p >= old
                    /\ door'.window = window(bytes, max, p)
                    /\ before \o door'.admitted = door'.evicted \o door'.window
                    /\ door'.admitted = Slice(bytes, Min(old, N), Min(p, N))
                    /\ door'.evicted = Slice(bytes, SaturatingSub(old, max),
                                             SaturatingSub(p, max))]_vars

\* C30 witness: an advance from 2 to 3 on b"bcde" with a window of 2 has
\* admitted d and evicted b.
C30_Witness ==
    /\ byte_window = [bytes |-> <<98, 99, 100, 101>>, max_window_size |-> 2,
                      current_index |-> 3]
    /\ door = [evicted |-> <<98>>, admitted |-> <<100>>, window |-> <<99, 100>>]


\* C29 (no overlapping matches): every Reference(o, L) emitted by
\* build_lz77_node_list has L <= o <= 2047, and when the replayer handles the
\* tokenizer's output the range [len - o, len - o + L) it copies lies inside
\* the history buffer.  Nodes are only appended, so the emitted node is the
\* last of the list.
C29_NoOverlap ==
    /\ (nodes # <<>> /\ IsReference(nodes[Len(nodes)])) =>
           /\ nodes[Len(nodes)].length >= 1
           /\ nodes[Len(nodes)].length <= nodes[Len(nodes)].offset
           /\ nodes[Len(nodes)].offset <= SEARCH_WINDOW_SIZE
    /\ ReplayingReference =>
           LET node == decoded[node_index + 1]
               search_start_index == Len(search_buffer) - node.offset
           IN  /\ search_start_index >= 0
               /\ search_start_index + node.length <= Len(search_buffer)
               /\ node.length <= SEARCH_WINDOW_SIZE
               /\ Len(search_buffer) <= SEARCH_WINDOW_SIZE

\* C29 witness: the replayer is about to copy Reference(2, 2) of
\* "ababcbababaa", whose length equals its offset, from a history of 2 bytes.
C29_Witness ==
    /\ to_compress = Scenario1
    /\ ReplayingReference
    /\ node_index = 2
    /\ nodes[3] = Reference(2, 2)
    /\ decoded[3] = Reference(2, 2)
    /\ Len(search_buffer) = 2


\* C28 (legacy offset overflow): the build_lz77_node_list of src/lz77.rs
\* emits a node with offset 2048 for some input; serailise_nodes writes such
\* a node in the long form with the 11 low bits of the offset, which are
\* 00000000000, and deserialise_nodes reads it back with offset 0.
C28_LegacyOffsetOverflow ==
    /\ (/\ pc = "legacy_deserialise"
        /\ Len(decoded) < Len(nodes)
        /\ nodes[Len(decoded) + 1].offset = SEARCH_WINDOW_SIZE_2048)
       => /\ SliceOk(bit_view, bitstream_offset, bitstream_offset + 13)
          /\ Slice(bit_view, bitstream_offset, bitstream_offset + 13)
                 = <<1, 0, 0, 0, 0, 0, 0, 0, 0, 0, 0, 0, 0>>
    /\ (/\ pc \in {"legacy_deserialise", "legacy_done"}
        /\ decoded # <<>>)
       => /\ Len(decoded) <= Len(nodes)
          /\ nodes[Len(decoded)].offset = SEARCH_WINDOW_SIZE_2048
                 => decoded[Len(decoded)] = LegacyNode(0, nodes[Len(decoded)].length,
                                                       nodes[Len(decoded)].char)

\* C28 witness: a pair repeated 2048 bytes later has been tokenized by
\* src/lz77.rs as a node with offset 2048 and read back with offset 0.
C28_Witness ==
    /\ pc = "legacy_done"
    /\ Len(decoded) = Len(nodes)
    /\ nodes[Len(nodes)] = LegacyNode(SEARCH_WINDOW_SIZE_2048, 2, 4)
    /\ decoded[Len(nodes)] = LegacyNode(0, 2, 4)

==========================================================================
